---- MODULE Spec2Model ----
(***************************************************************************)
(* Client-side search core of the news application (js/search.js) and the  *)
(* data loader it consumes (loader.js).                                    *)
(*                                                                         *)
(* A JavaScript string is a sequence of one-character strings.  A value    *)
(* that may be null/undefined is a sequence of length 0 (null) or 1.       *)
(* A JavaScript object with optional properties is a function whose        *)
(* DOMAIN is the set of properties present.  Offsets returned by indexOf   *)
(* are 0-based, as in JavaScript.                                          *)
(***************************************************************************)
EXTENDS Integers, Sequences, FiniteSets, TLC

(***************************************************************************)
(* Characters                                                              *)
(***************************************************************************)
LowerLetters == <<"a","b","c","d","e","f","g","h","i","j","k","l","m",
                  "n","o","p","q","r","s","t","u","v","w","x","y","z">>
UpperLetters == <<"A","B","C","D","E","F","G","H","I","J","K","L","M",
                  "N","O","P","Q","R","S","T","U","V","W","X","Y","Z">>
Digits == {"0","1","2","3","4","5","6","7","8","9"}

Range(f) == {f[i] : i \in DOMAIN f}

\* \w of a JavaScript regular expression without the u flag
IsWordChar(c) == c \in Range(LowerLetters) \cup Range(UpperLetters) \cup Digits \cup {"_"}

\* \s of a JavaScript regular expression, and what String.prototype.trim removes
IsSpace(c) == c \in {" ", "\t", "\n"}

\* String.prototype.toLowerCase, one character
LowerChar(c) ==
    IF \E i \in DOMAIN UpperLetters : UpperLetters[i] = c
    THEN LowerLetters[CHOOSE i \in DOMAIN UpperLetters : UpperLetters[i] = c]
    ELSE c

\* Characters that make `new RegExp("\\b" + word + "\\b")` a syntax error
\* whenever they occur in word and their closing character does not
RegexFatalChars == {"(", "["}

Null == <<>>
Some(x) == <<x>>
IsNull(o) == o = <<>>
Val(o) == o[1]

SetMin(S) == CHOOSE x \in S : \A y \in S : x <= y
SetMax(S) == CHOOSE x \in S : \A y \in S : x >= y
Max2(a, b) == IF a >= b THEN a ELSE b

(***************************************************************************)
(* String primitives                                                       *)
(***************************************************************************)
toLowerCase(s) == [i \in 1..Len(s) |-> LowerChar(s[i])]

\* w occurs in text at the 1-based position i
IsAt(text, w, i) ==
    /\ i >= 1
    /\ i + Len(w) - 1 <= Len(text)
    /\ SubSeq(text, i, i + Len(w) - 1) = w

includes(text, w) == \E i \in 1..(Len(text) - Len(w) + 1) : IsAt(text, w, i)

\* startsWith that rejects p = s
startsWithProper(s, p) == Len(p) < Len(s) /\ SubSeq(s, 1, Len(p)) = p

startsWith(s, p) == IsAt(s, p, 1)

\* String.prototype.indexOf(w, from): 0-based offset, or -1
indexOf(text, w, from) ==
    LET hits == {i \in from..(Len(text) - Len(w)) : IsAt(text, w, i + 1)}
    IN IF hits = {} THEN -1 ELSE SetMin(hits)

trim(s) ==
    LET keep == {i \in 1..Len(s) : ~IsSpace(s[i])}
    IN IF keep = {} THEN <<>> ELSE SubSeq(s, SetMin(keep), SetMax(keep))

RECURSIVE JoinFrom(_, _, _)
JoinFrom(parts, sep, i) ==
    IF i > Len(parts) THEN <<>>
    ELSE IF i = Len(parts) THEN parts[i]
    ELSE parts[i] \o sep \o JoinFrom(parts, sep, i + 1)

\* Array.prototype.join
join(parts, sep) == JoinFrom(parts, sep, 1)

Indices(s) == [i \in 1..Len(s) |-> i]

\* The pieces of s between the separators that start at starts[k] and end
\* at ends[k]
Pieces(s, starts, ends) ==
    [k \in 1..(Len(starts) + 1) |->
        SubSeq(s, IF k = 1 THEN 1 ELSE ends[k - 1] + 1,
                  IF k = Len(starts) + 1 THEN Len(s) ELSE starts[k] - 1)]

\* String.prototype.split(/\s+/): the separators are the maximal runs of
\* whitespace
splitWhitespace(s) ==
    Pieces(s,
           SelectSeq(Indices(s), LAMBDA i : IsSpace(s[i]) /\ (i = 1 \/ ~IsSpace(s[i - 1]))),
           SelectSeq(Indices(s), LAMBDA i : IsSpace(s[i]) /\ (i = Len(s) \/ ~IsSpace(s[i + 1]))))

\* String.prototype.split(' '): every space is a separator
splitSpace(s) ==
    LET spaces == SelectSeq(Indices(s), LAMBDA i : s[i] = " ")
    IN Pieces(s, spaces, spaces)

\* .replace(/[^\w\s]/g, ' ')
replaceNonWord(s) ==
    [i \in 1..Len(s) |-> IF IsWordChar(s[i]) \/ IsSpace(s[i]) THEN s[i] ELSE " "]

\* .replace(/\s+/g, ' ')
collapseWhitespace(s) ==
    LET kept == SelectSeq(Indices(s),
                          LAMBDA i : ~(IsSpace(s[i]) /\ i > 1 /\ IsSpace(s[i - 1])))
    IN [j \in 1..Len(kept) |-> IF IsSpace(s[kept[j]]) THEN " " ELSE s[kept[j]]]

Has(obj, field) == field \in DOMAIN obj

\* obj.field converted to a string without the || '' default
StrOrUndefined(obj, field) ==
    IF Has(obj, field) THEN obj[field] ELSE <<"u","n","d","e","f","i","n","e","d">>

\* obj.field || '' for a string property
StrOrEmpty(obj, field) == IF Has(obj, field) THEN obj[field] ELSE <<>>

\* (obj.field || []) for an array property
ListOrEmpty(obj, field) == IF Has(obj, field) THEN obj[field] ELSE <<>>

\* article.author?.name
AuthorName(article) ==
    IF Has(article, "author") /\ Has(article.author, "name")
    THEN Some(article.author.name) ELSE Null

(***************************************************************************)
(* Outcome of a computation that may throw                                 *)
(***************************************************************************)
Ok(v) == [ok |-> TRUE, v |-> v]
Throw == [ok |-> FALSE]

RECURSIVE FlattenFrom(_, _)
FlattenFrom(ss, i) == IF i > Len(ss) THEN <<>> ELSE ss[i] \o FlattenFrom(ss, i + 1)
Flatten(ss) == FlattenFrom(ss, 1)

\* The elements of s in order of first occurrence (insertion order of a Set)
Dedup(s) ==
    LET first == SelectSeq([i \in 1..Len(s) |-> i],
                           LAMBDA i : \A j \in 1..(i - 1) : s[j] # s[i])
    IN [k \in 1..Len(first) |-> s[first[k]]]

(***************************************************************************)
(* Corpus normalizer and inverted index builder                            *)
(***************************************************************************)
minQueryLength == 2
maxResults == 20

createSearchText(article) ==
    LET authorName == AuthorName(article)
        textParts == << StrOrEmpty(article, "title"),
                        StrOrEmpty(article, "summary"),
                        StrOrEmpty(article, "content"),
                        StrOrEmpty(article, "section"),
                        join(ListOrEmpty(article, "categories"), <<" ">>),
                        join(ListOrEmpty(article, "tags"), <<" ">>),
                        IF IsNull(authorName) THEN <<>> ELSE Val(authorName) >>
    IN trim(collapseWhitespace(replaceNonWord(toLowerCase(join(textParts, <<" ">>)))))

RECURSIVE PositionsFrom(_, _, _)
PositionsFrom(text, word, from) ==
    LET index == indexOf(text, word, from)
    IN IF index = -1 THEN <<>>
       ELSE <<index>> \o PositionsFrom(text, word, index + Len(word))

findWordPositions(text, word) == PositionsFrom(text, word, 0)

\* Property names every object literal inherits from Object.prototype and
\* that lower-cased text can spell: index[word] is truthy for them before
\* any posting was stored
constructorKey == <<"c","o","n","s","t","r","u","c","t","o","r">>
protoKey == <<"_","_","p","r","o","t","o","_","_">>
InheritedKeys == {constructorKey, protoKey}

\* The index is the sequence of its entries in key insertion order
IndexKeys(index) == [i \in 1..Len(index) |-> index[i].word]
HasKey(index, word) == \E i \in 1..Len(index) : index[i].word = word
Postings(index, word) ==
    index[CHOOSE i \in 1..Len(index) : index[i].word = word].postings

\* AddPosting keeping only the posting that created the entry
AddPostingOnce(index, word, posting) ==
    IF HasKey(index, word) THEN index
    ELSE Append(index, [word |-> word, postings |-> <<posting>>])

AddPosting(index, word, posting) ==
    IF HasKey(index, word)
    THEN [i \in 1..Len(index) |->
            IF index[i].word = word
            THEN [index[i] EXCEPT !.postings = Append(@, posting)]
            ELSE index[i]]
    ELSE Append(index, [word |-> word, postings |-> <<posting>>])

\* words.forEach of createSearchIndex for one article
RECURSIVE IndexWordsFrom(_, _, _, _, _)
IndexWordsFrom(index, words, k, articleIndex, text) ==
    IF k > Len(words) THEN Ok(index)
    ELSE IF Len(words[k]) < 2
         THEN IndexWordsFrom(index, words, k + 1, articleIndex, text)
    ELSE IF words[k] \in InheritedKeys
         THEN Throw
    ELSE IndexWordsFrom(
            AddPosting(index, words[k],
                       [articleIndex |-> articleIndex, word |-> words[k],
                        positions |-> findWordPositions(text, words[k])]),
            words, k + 1, articleIndex, text)

RECURSIVE IndexArticlesFrom(_, _, _)
IndexArticlesFrom(index, articles, n) ==
    IF n > Len(articles) THEN Ok(index)
    ELSE LET text == articles[n].searchText
             r == IndexWordsFrom(index, splitSpace(text), 1, n - 1, text)
         IN IF r.ok THEN IndexArticlesFrom(r.v, articles, n + 1) ELSE Throw

createSearchIndex(articles) == IndexArticlesFrom(<<>>, articles, 1)

(***************************************************************************)
(* Candidate selector                                                      *)
(***************************************************************************)
PostingArticles(postings) == [i \in 1..Len(postings) |-> postings[i].articleIndex]

ArticlesUnder(entries) ==
    Flatten([i \in 1..Len(entries) |-> PostingArticles(entries[i].postings)])

\* WordCandidates with the substring rule applied to words of any length
WordCandidatesAnyLength(index, word) ==
    LET exact == IF HasKey(index, word)
                 THEN PostingArticles(Postings(index, word)) ELSE <<>>
        fuzzy == ArticlesUnder(SelectSeq(index,
                    LAMBDA e : startsWith(e.word, word) \/ startsWith(word, e.word)))
        substr == ArticlesUnder(SelectSeq(index,
                    LAMBDA e : includes(e.word, word) \/ includes(word, e.word)))
    IN exact \o fuzzy \o substr

\* The article indices one query word adds, in the order they are added
WordCandidates(index, word) ==
    LET exact == IF HasKey(index, word)
                 THEN PostingArticles(Postings(index, word)) ELSE <<>>
        fuzzy == ArticlesUnder(SelectSeq(index,
                    LAMBDA e : startsWith(e.word, word) \/ startsWith(word, e.word)))
        substr == IF Len(word) > 3
                  THEN ArticlesUnder(SelectSeq(index,
                          LAMBDA e : includes(e.word, word) \/ includes(word, e.word)))
                  ELSE <<>>
    IN exact \o fuzzy \o substr

\* getCandidateArticles taking every posted article as a candidate
getCandidateArticlesAll(searchIndex, queryWords) ==
    IF IsNull(searchIndex) THEN Throw
    ELSE Ok(Dedup(ArticlesUnder(Val(searchIndex))))

\* searchIndex is null or the index; the result is the Set of candidates in
\* insertion order
getCandidateArticles(searchIndex, queryWords) ==
    IF IsNull(searchIndex) THEN Throw
    ELSE IF \E k \in 1..Len(queryWords) : queryWords[k] \in InheritedKeys THEN Throw
    ELSE Ok(Dedup(Flatten([k \in 1..Len(queryWords) |->
                              WordCandidates(Val(searchIndex), queryWords[k])])))

(***************************************************************************)
(* Relevance scorer                                                        *)
(***************************************************************************)
\* Time is counted in hours; 1000 * 60 * 60 * 24 ms is one day
HoursPerDay == 24
TodayDays == 1
WeekDays == 7

\* \b at the 1-based gap p, between text[p - 1] and text[p]
IsBoundary(text, p) ==
    LET before == p - 1 >= 1 /\ p - 1 <= Len(text) /\ IsWordChar(text[p - 1])
        after == p >= 1 /\ p <= Len(text) /\ IsWordChar(text[p])
    IN before # after

\* (text.match(new RegExp(`\\b${word}\\b`, 'gi')) || []).length for a word
\* of literal characters: non-overlapping matches, scanned left to right
RECURSIVE WholeWordFrom(_, _, _)
WholeWordFrom(text, word, i) ==
    LET hits == {j \in i..(Len(text) - Len(word) + 1) :
                    /\ IsAt(text, word, j)
                    /\ IsBoundary(text, j)
                    /\ IsBoundary(text, j + Len(word))}
    IN IF hits = {} THEN 0
       ELSE 1 + WholeWordFrom(text, word, SetMin(hits) + Len(word))

exactMatches(text, word) == WholeWordFrom(text, word, 1)

RegexThrows(word) == \E i \in 1..Len(word) : word[i] \in RegexFatalChars

\* queryWords.forEach of calculateTextScore, one word
WordScore(text, word) ==
    IF includes(text, word)
    THEN LET n == exactMatches(text, word)
         IN n * 3 + (IF n = 0 THEN 1 ELSE 0)
    ELSE 0

RECURSIVE SumSeqFrom(_, _)
SumSeqFrom(s, i) == IF i > Len(s) THEN 0 ELSE s[i] + SumSeqFrom(s, i + 1)
SumSeq(s) == SumSeqFrom(s, 1)

calculateTextScore(text, query, queryWords) ==
    IF text = <<>> THEN Ok(0)
    ELSE IF \E k \in 1..Len(queryWords) :
                includes(text, queryWords[k]) /\ RegexThrows(queryWords[k])
         THEN Throw
    ELSE LET phrase == IF includes(text, query) THEN 10 ELSE 0
             words == SumSeq([k \in 1..Len(queryWords) |-> WordScore(text, queryWords[k])])
             queryPosition == indexOf(text, query, 0)
             positionScore == IF queryPosition # -1
                              THEN Max2(0, 5 - (queryPosition \div 100))
                              ELSE 0
         IN Ok(phrase + words + positionScore)

\* recencyBonus with the day and the week counted inclusively
recencyBonusInclusive(article, now) ==
    IF ~Has(article, "publishedAt") THEN 0
    ELSE LET diff == now - article.publishedAt
         IN IF diff <= TodayDays * HoursPerDay THEN 2
            ELSE IF diff <= WeekDays * HoursPerDay THEN 1
            ELSE 0

\* publishedAt is absent (new Date(undefined) is an invalid date: every
\* comparison with it is false) or a number of hours
recencyBonus(article, now) ==
    IF ~Has(article, "publishedAt") THEN 0
    ELSE LET diff == now - article.publishedAt
         IN IF diff < TodayDays * HoursPerDay THEN 2
            ELSE IF diff < WeekDays * HoursPerDay THEN 1
            ELSE 0

featuredBonus(article) == IF Has(article, "featured") /\ article.featured THEN 1 ELSE 0

\* ScoredFields with the summary weighted like the title
ScoredFieldsEqualWeights(article) ==
    LET authorName == AuthorName(article)
    IN << [weight |-> 10, text |-> Some(toLowerCase(article.title))],
          [weight |-> 10, text |-> Some(toLowerCase(article.summary))],
          [weight |-> 2, text |-> IF Has(article, "content") /\ article.content # <<>>
                                  THEN Some(toLowerCase(article.content)) ELSE Null],
          [weight |-> 3, text |-> IF Has(article, "tags")
                                  THEN Some(toLowerCase(join(article.tags, <<" ">>)))
                                  ELSE Null],
          [weight |-> 3, text |-> IF Has(article, "categories")
                                  THEN Some(toLowerCase(join(article.categories, <<" ">>)))
                                  ELSE Null],
          [weight |-> 1, text |-> Some(toLowerCase(article.section))],
          [weight |-> 1, text |-> IF ~IsNull(authorName) /\ Val(authorName) # <<>>
                                  THEN Some(toLowerCase(Val(authorName))) ELSE Null] >>

\* The fields scored, each with its weight; text is Null where the code
\* skips the field.  title, summary and section are read unconditionally.
ScoredFields(article) ==
    LET authorName == AuthorName(article)
    IN << [weight |-> 10, text |-> Some(toLowerCase(article.title))],
          [weight |-> 5, text |-> Some(toLowerCase(article.summary))],
          [weight |-> 2, text |-> IF Has(article, "content") /\ article.content # <<>>
                                  THEN Some(toLowerCase(article.content)) ELSE Null],
          [weight |-> 3, text |-> IF Has(article, "tags")
                                  THEN Some(toLowerCase(join(article.tags, <<" ">>)))
                                  ELSE Null],
          [weight |-> 3, text |-> IF Has(article, "categories")
                                  THEN Some(toLowerCase(join(article.categories, <<" ">>)))
                                  ELSE Null],
          [weight |-> 1, text |-> Some(toLowerCase(article.section))],
          [weight |-> 1, text |-> IF ~IsNull(authorName) /\ Val(authorName) # <<>>
                                  THEN Some(toLowerCase(Val(authorName))) ELSE Null] >>

\* The score scoreSearchResults gives one article
ArticleScore(article, normalizedQuery, queryWords, now) ==
    IF ~Has(article, "title") \/ ~Has(article, "summary") \/ ~Has(article, "section")
    THEN Throw
    ELSE LET fields == ScoredFields(article)
             parts == [f \in 1..Len(fields) |->
                         IF IsNull(fields[f].text) THEN Ok(0)
                         ELSE calculateTextScore(Val(fields[f].text),
                                                 normalizedQuery, queryWords)]
         IN IF \E f \in 1..Len(fields) : ~parts[f].ok THEN Throw
            ELSE Ok(SumSeq([f \in 1..Len(fields) |-> parts[f].v * fields[f].weight])
                    + recencyBonus(article, now) + featuredBonus(article))

\* {...article, score: score}
WithScore(article, score) == ("score" :> score) @@ article

\* scoreSearchResults without the score > 0 test
scoreSearchResultsAll(searchData, candidates, normalizedQuery, queryWords, now) ==
    IF IsNull(searchData) THEN Throw
    ELSE LET data == Val(searchData)
             live == SelectSeq(candidates, LAMBDA a : a + 1 <= Len(data))
             scores == [k \in 1..Len(live) |->
                          ArticleScore(data[live[k] + 1], normalizedQuery, queryWords, now)]
         IN IF \E k \in 1..Len(live) : ~scores[k].ok THEN Throw
            ELSE Ok([k \in 1..Len(live) |-> WithScore(data[live[k] + 1], scores[k].v)])

scoreSearchResults(searchData, candidates, normalizedQuery, queryWords, now) ==
    IF IsNull(searchData) THEN Throw
    ELSE LET data == Val(searchData)
             \* const article = this.searchData[articleIndex]; if (!article) return;
             live == SelectSeq(candidates, LAMBDA a : a + 1 <= Len(data))
             scores == [k \in 1..Len(live) |->
                          ArticleScore(data[live[k] + 1], normalizedQuery, queryWords, now)]
         IN IF \E k \in 1..Len(live) : ~scores[k].ok THEN Throw
            ELSE LET kept == SelectSeq([k \in 1..Len(live) |-> k],
                                       LAMBDA k : scores[k].v > 0)
                 IN Ok([j \in 1..Len(kept) |->
                          WithScore(data[live[kept[j]] + 1], scores[kept[j]].v)])

(***************************************************************************)
(* Filter and rank pipeline                                                *)
(***************************************************************************)
Truthy(filters, field) == Has(filters, field) /\ filters[field] # <<>>

sectionPasses(article, filters) ==
    \/ (Has(article, "section") /\ article.section = filters.section)
    \/ (Has(article, "sectionKey") /\ article.sectionKey = filters.section)

\* datePasses without the test of the range's end
datePassesNoEnd(article, filters) ==
    /\ Has(article, "publishedAt")
    /\ article.publishedAt >= filters.dateRange.start

datePasses(article, filters) ==
    /\ Has(article, "publishedAt")
    /\ article.publishedAt >= filters.dateRange.start
    /\ article.publishedAt <= filters.dateRange.end

\* article.author?.name.toLowerCase() throws when author has no name
authorThrows(article) == Has(article, "author") /\ ~Has(article.author, "name")

authorPasses(article, filters) ==
    /\ Has(article, "author")
    /\ includes(toLowerCase(article.author.name), toLowerCase(filters.author))

anyOf(article, field, wanted) ==
    /\ Has(article, field)
    /\ \E i \in 1..Len(article[field]) : article[field][i] \in Range(wanted)

applyFilters(results, filters) ==
    LET bySection == IF Truthy(filters, "section")
                     THEN SelectSeq(results, LAMBDA a : sectionPasses(a, filters))
                     ELSE results
        byDate == IF Has(filters, "dateRange")
                  THEN SelectSeq(bySection, LAMBDA a : datePasses(a, filters))
                  ELSE bySection
        authorOn == Truthy(filters, "author")
        byAuthor == IF authorOn
                    THEN SelectSeq(byDate, LAMBDA a : ~authorThrows(a) /\ authorPasses(a, filters))
                    ELSE byDate
        byCategories == IF Truthy(filters, "categories")
                        THEN SelectSeq(byAuthor, LAMBDA a : anyOf(a, "categories", filters.categories))
                        ELSE byAuthor
        byTags == IF Truthy(filters, "tags")
                  THEN SelectSeq(byCategories, LAMBDA a : anyOf(a, "tags", filters.tags))
                  ELSE byCategories
    IN IF authorOn /\ \E i \in 1..Len(byDate) : authorThrows(byDate[i])
       THEN Throw
       ELSE Ok(byTags)

\* Stable insertion of x into a sorted sequence: x goes in front of the
\* first of the elements it comes strictly before (later: their indices)
InsertSorted(sorted, x, later) ==
    LET at == IF later = {} THEN Len(sorted) + 1 ELSE SetMin(later)
    IN SubSeq(sorted, 1, at - 1) \o <<x>> \o SubSeq(sorted, at, Len(sorted))

\* The comparator reversed: (a, b) => a.score - b.score
ScoreAscending(a, b) == a.score < b.score

\* (a, b) => b.score - a.score
ScoreBefore(a, b) == a.score > b.score

\* Array.prototype.sort with that comparator: a stable sort
RECURSIVE SortByScoreFrom(_, _, _)
SortByScoreFrom(s, i, acc) ==
    IF i > Len(s) THEN acc
    ELSE SortByScoreFrom(s, i + 1, InsertSorted(acc, s[i],
                 {j \in 1..Len(acc) : ScoreBefore(s[i], acc[j])}))

sortByScore(results) == SortByScoreFrom(results, 1, <<>>)

\* slice(0, n - 1)
sliceShort(s, n) == SubSeq(s, 1, IF Len(s) < n - 1 THEN Len(s) ELSE n - 1)

\* Array.prototype.slice(0, n)
slice(s, n) == SubSeq(s, 1, IF Len(s) < n THEN Len(s) ELSE n)

\* query is Null or a string; the value search resolves with
search(searchData, searchIndex, query, filters, now) ==
    IF IsNull(query) \/ Val(query) = <<>> \/ Len(trim(Val(query))) < minQueryLength
    THEN <<>>
    ELSE LET normalizedQuery == trim(toLowerCase(Val(query)))
             queryWords == splitWhitespace(normalizedQuery)
             candidates == getCandidateArticles(searchIndex, queryWords)
             scoredResults == IF candidates.ok
                              THEN scoreSearchResults(searchData, candidates.v,
                                                      normalizedQuery, queryWords, now)
                              ELSE Throw
             filteredResults == IF scoredResults.ok
                                THEN applyFilters(scoredResults.v, filters)
                                ELSE Throw
         IN IF filteredResults.ok
            THEN slice(sortByScore(filteredResults.v), maxResults)
            ELSE <<>>

(***************************************************************************)
(* Suggestion generator                                                    *)
(***************************************************************************)
maxSuggestions == 8

\* The phrases one title contributes, in the order they are added
TitlePhrases(title, normalizedQuery, query) ==
    IF includes(title, normalizedQuery)
    THEN LET words == splitSpace(title)
             hit == SelectSeq([i \in 1..Len(words) |-> i],
                              LAMBDA i : includes(words[i], normalizedQuery)
                                         /\ Len(words[i]) > 3)
             phrases == [j \in 1..Len(hit) |->
                           join(SubSeq(words, hit[j],
                                       IF hit[j] + 2 > Len(words) THEN Len(words)
                                       ELSE hit[j] + 2), <<" ">>)]
         IN SelectSeq(phrases, LAMBDA p : Len(p) > Len(query))
    ELSE <<>>

\* The comparator reversed: (a, b) => b.length - a.length
LongerBefore(a, b) == Len(a) > Len(b)

\* (a, b) => a.length - b.length
ShorterBefore(a, b) == Len(a) < Len(b)

RECURSIVE SortByLengthFrom(_, _, _)
SortByLengthFrom(s, i, acc) ==
    IF i > Len(s) THEN acc
    ELSE SortByLengthFrom(s, i + 1, InsertSorted(acc, s[i],
                 {j \in 1..Len(acc) : ShorterBefore(s[i], acc[j])}))

sortByLength(suggestions) == SortByLengthFrom(suggestions, 1, <<>>)

\* query is Null or a string; the outcome is the list returned, or a throw
getSuggestions(searchData, searchIndex, query) ==
    IF IsNull(query) \/ Len(Val(query)) < 2 THEN Ok(<<>>)
    ELSE IF IsNull(searchIndex) \/ IsNull(searchData) THEN Throw
    ELSE IF \E i \in 1..Len(Val(searchData)) : ~Has(Val(searchData)[i], "title") THEN Throw
    ELSE LET normalizedQuery == toLowerCase(Val(query))
             data == Val(searchData)
             fromIndex == SelectSeq(IndexKeys(Val(searchIndex)),
                                    LAMBDA w : startsWith(w, normalizedQuery))
             fromTitles == Flatten([i \in 1..Len(data) |->
                              TitlePhrases(toLowerCase(data[i].title),
                                           normalizedQuery, Val(query))])
             suggestions == Dedup(fromIndex \o fromTitles)
         IN Ok(sortByLength(slice(suggestions, maxSuggestions)))

(***************************************************************************)
(* Data loader: validation (loader.js)                                     *)
(*                                                                         *)
(* A parsed JSON body is Null (the JSON value null) or Some(newsData);     *)
(* newsData is the sequence of its entries [key, value] in key order, and  *)
(* value is Null (JSON null) or Some(section object).                      *)
(***************************************************************************)
retryAttempts == 3

metaKey == <<"m","e","t","a">>
heroKey == <<"h","e","r","o">>
latestKey == <<"l","a","t","e","s","t">>
requiredSections == {heroKey, latestKey}

HasTruthy(newsData, key) ==
    \E i \in 1..Len(newsData) : newsData[i].key = key /\ ~IsNull(newsData[i].value)

\* TRUE when _validateNewsData(data) throws
validateThrows(body) ==
    \/ IsNull(body)
    \/ \E key \in requiredSections : ~HasTruthy(Val(body), key)
    \/ \E i \in 1..Len(Val(body)) :
          Val(body)[i].key # metaKey /\ IsNull(Val(body)[i].value)

(***************************************************************************)
(* buildSearchIndex, after loadNewsData resolved with newsData             *)
(***************************************************************************)
IndexedArticle(article, sectionKey) ==
    ("sectionKey" :> sectionKey) @@ ("searchText" :> createSearchText(article)) @@ article

\* SectionArticles leaving out the last item of the section
SectionArticlesButLast(entry) ==
    LET section == Val(entry.value)
    IN IF Has(section, "items")
       THEN [i \in 1..(Len(section.items) - 1) |->
                IndexedArticle(section.items[i], entry.key)]
       ELSE <<>>

SectionArticles(entry) ==
    LET section == Val(entry.value)
    IN IF Has(section, "items")
       THEN [i \in 1..Len(section.items) |-> IndexedArticle(section.items[i], entry.key)]
       ELSE <<>>

\* Object.keys(newsData).forEach: data is what searchData holds when the
\* loop ends or throws
RECURSIVE FlattenSectionsFrom(_, _, _)
FlattenSectionsFrom(newsData, i, acc) ==
    IF i > Len(newsData) THEN [ok |-> TRUE, data |-> acc]
    ELSE IF newsData[i].key = metaKey THEN FlattenSectionsFrom(newsData, i + 1, acc)
    ELSE IF IsNull(newsData[i].value) THEN [ok |-> FALSE, data |-> acc]
    ELSE FlattenSectionsFrom(newsData, i + 1, acc \o SectionArticles(newsData[i]))

flattenSections(body) ==
    IF IsNull(body) THEN [ok |-> FALSE, data |-> <<>>]
    ELSE FlattenSectionsFrom(Val(body), 1, <<>>)

\* The engine's fields after the synchronous part of buildSearchIndex that
\* follows the await, and whether it completed (ok) or threw
buildFrom(body, oldIndex) ==
    LET flat == flattenSections(body)
        index == IF flat.ok THEN createSearchIndex(flat.data) ELSE Throw
    IN IF index.ok
       THEN [ok |-> TRUE, searchData |-> Some(flat.data), searchIndex |-> Some(index.v)]
       ELSE [ok |-> FALSE, searchData |-> Some(flat.data), searchIndex |-> oldIndex]

(***************************************************************************)
(* Inputs: article records, corpora, queries and filters                   *)
(***************************************************************************)
\* Published 23 hours before time 0: the "today" bonus ends at time 1
rateCut ==
    [id |-> 1,
     title |-> <<"R","a","t","e"," ","c","u","t">>,
     summary |-> <<"S","t","o","c","k","s"," ","r","a","l","l","y">>,
     section |-> <<"b","i","z">>,
     categories |-> <<<<"f","i","n">>>>,
     tags |-> <<<<"e","c","o","n">>, <<"r","a","t","e","s">>>>,
     author |-> [name |-> <<"A","n","n"," ","L","e","e">>],
     publishedAt |-> -23,
     featured |-> TRUE]

\* Published 167 hours before time 0: the "this week" bonus ends at time 1
techRally ==
    [id |-> 2,
     title |-> <<"T","e","c","h"," ","r","a","l","l","y">>,
     summary |-> <<"C","h","i","p","s"," ","u","p">>,
     content |-> <<"R","a","t","e","s"," ","f","l","a","t">>,
     section |-> <<"t","e","c","h">>,
     categories |-> <<<<"m","k","t">>>>,
     tags |-> <<<<"c","h","i","p","s">>>>,
     author |-> [name |-> <<"B","o">>],
     publishedAt |-> -167,
     featured |-> FALSE]

\* Every token of its searchText is one character long
punctuated ==
    [id |-> 3,
     title |-> <<"A","-","b">>,
     summary |-> <<"x">>,
     section |-> <<"q">>,
     publishedAt |-> -400,
     featured |-> FALSE]

\* A title with a regular-expression metacharacter, and an author without a name
openParen ==
    [id |-> 4,
     title |-> <<"C","u","t"," ","(">>,
     summary |-> <<"y">>,
     section |-> <<"t","e","c","h">>,
     author |-> [id |-> 7],
     publishedAt |-> -10,
     featured |-> FALSE]

\* A title whose words are separated by a tab
tabbed ==
    [id |-> 5,
     title |-> <<"C","u","p","\t","f","i","n","a","l">>,
     summary |-> <<"z">>,
     section |-> <<"q">>,
     publishedAt |-> -400,
     featured |-> FALSE]

\* Its searchText has the token "constructor"
constructorWins ==
    [id |-> 6,
     title |-> <<"C","o","n","s","t","r","u","c","t","o","r">>,
     summary |-> <<"w","i","n">>,
     section |-> <<"q">>,
     publishedAt |-> -5,
     featured |-> FALSE]

\* A minimal record
rateOnly ==
    [id |-> 7,
     title |-> <<"R","a","t">>,
     summary |-> <<"r">>,
     section |-> <<"b">>,
     publishedAt |-> -23,
     featured |-> TRUE]

Entry(key, items) == [key |-> key, value |-> Some([items |-> items])]
metaEntry == [key |-> metaKey, value |-> Some([version |-> 1])]

sportKey == <<"s","p","o","r","t">>

deskNews == Some(<< metaEntry, Entry(heroKey, <<rateCut>>),
                    Entry(latestKey, <<techRally, punctuated, openParen, tabbed>>) >>)
smallNews == Some(<< metaEntry, Entry(heroKey, <<rateCut>>), Entry(latestKey, <<>>) >>)
tinyNews == Some(<< Entry(heroKey, <<rateOnly>>), Entry(latestKey, <<>>) >>)
constructorNews == Some(<< Entry(heroKey, <<constructorWins>>), Entry(latestKey, <<>>) >>)
\* Fails validation: a section that is null
nullSectionNews == Some(<< Entry(heroKey, <<rateOnly>>), Entry(latestKey, <<>>),
                           [key |-> sportKey, value |-> Null] >>)

\* maxResults + 1 articles matching "poll", all but the first matching "up":
\* the even ones featured, the last one alone in section "t" and not featured
pollArticle(i) ==
    [id |-> 100 + i, title |-> <<"P","o","l","l">>,
     summary |-> IF i = 1 THEN <<"s">> ELSE <<"u","p">>,
     section |-> IF i > maxResults THEN <<"t">> ELSE <<"n">>,
     publishedAt |-> -400, featured |-> (i <= maxResults /\ i % 2 = 0)]
pollNews == Some(<< Entry(heroKey, <<>>),
                    Entry(latestKey, [i \in 1..(maxResults + 1) |-> pollArticle(i)]) >>)

qRateCut == Some(<<"r","a","t","e"," ","c","u","t">>)
qRally == Some(<<"r","a","l","l","y">>)
qUpper == Some(<<"R","A","T","E">>)
qPadded == Some(<<" ","t","e","c","h"," ">>)
qTitleAb == Some(<<"a","-","b">>)
qTitleParen == Some(<<"c","u","t"," ","(">>)
qCut == Some(<<"c","u","t">>)
qPoll == Some(<<"p","o","l","l">>)
qUp == Some(<<"u","p">>)
qNone == Some(<<"x","y","z","z","y">>)
qShort == Some(<<"a">>)
qBlank == Some(<<" "," ">>)
qPadShort == Some(<<" ","r">>)
qTabShort == Some(<<"p","\t">>)
qRa == Some(<<"r","a">>)
qEmpty == Some(<<>>)
qNull == Null

noFilters == <<>>
fSectionTech == [section |-> <<"t","e","c","h">>]
fSectionT == [section |-> <<"t">>]
fSectionKey == [section |-> <<"l","a","t","e","s","t">>]
fSectionEmpty == [section |-> <<>>]
fDates == [dateRange |-> [start |-> -167, end |-> -100]]
fAuthor == [author |-> <<"A","N","N">>]
fCategories == [categories |-> <<<<"f","i","n">>, <<"x">>>>]
fNoCategories == [categories |-> <<>>]
fTags == [tags |-> <<<<"c","h","i","p","s">>>>]
fTechChips == [section |-> <<"t","e","c","h">>, tags |-> <<<<"c","h","i","p","s">>>>, dateRange |-> [start |-> -200, end |-> 0]]

\* A record with every field createSearchText reads
fullStory ==
    [id |-> 8,
     title |-> <<"C","u","p"," ","t","i","e">>,
     summary |-> <<"T","i","e"," ","u","p">>,
     content |-> <<"U","p">>,
     section |-> <<"c","u","p">>,
     categories |-> <<<<"t","i","e">>>>,
     tags |-> <<<<"u","p">>, <<"a","l">>>>,
     author |-> [id |-> 7, name |-> <<"A","l"," ","U","p">>],
     publishedAt |-> -5,
     featured |-> FALSE]

\* The fields an article record may lack
StoryFields == {"title", "summary", "content", "section", "categories", "tags", "author"}

\* fullStory with only the fields of kept; named tells whether its author,
\* when kept, has a name
Story(kept, named) ==
    [f \in {"id", "publishedAt", "featured"} \cup kept |->
        IF f = "author" /\ ~named THEN [id |-> 7] ELSE fullStory[f]]

StoryVariants ==
    {Story(kept, named) : kept \in SUBSET StoryFields, named \in BOOLEAN}

BuildBodies ==
    {Some(<< metaEntry, Entry(heroKey, <<story>>), Entry(latestKey, <<tabbed>>) >>) :
        story \in StoryVariants}

\* Nine tokens starting with "te"; featured, and published 5 hours before
\* time 0
teaStory ==
    [id |-> 10,
     title |-> <<"T","e","a","m"," ","t","e","a">>,
     summary |-> <<"T","e","a","l"," ","t","e","c","h"," ","t","e","e","s"," ",
                   "t","e","l","l"," ","t","e","m","p"," ","t","e","n","d"," ",
                   "t","e","n","t">>,
     section |-> <<"w">>,
     publishedAt |-> -5,
     featured |-> TRUE]

conArt ==
    [id |-> 11,
     title |-> <<"C","o","n"," ","a","r","t">>,
     summary |-> <<"x">>,
     section |-> <<"s">>,
     publishedAt |-> -400,
     featured |-> FALSE]

\* Dated 5 hours after time 0; every optional field present
artFair ==
    [id |-> 12,
     title |-> <<"A","r","t"," ","f","a","i","r">>,
     summary |-> <<"F","a","i","r"," ","a","r","t">>,
     content |-> <<"A","r","t">>,
     section |-> <<"s">>,
     categories |-> <<<<"a","r","t">>>>,
     tags |-> <<<<"f","a","i","r">>, <<"a","r","t">>>>,
     author |-> [name |-> <<"A","r","t">>],
     publishedAt |-> 5,
     featured |-> FALSE]

wireNews == Some(<< metaEntry, Entry(heroKey, <<teaStory>>),
                    Entry(latestKey, <<conArt, artFair>>) >>)

qTe == Some(<<"t","e">>)
qTeUpper == Some(<<"T","E">>)
qTea == Some(<<"t","e","a">>)
qEa == Some(<<"e","a">>)
qSteam == Some(<<"s","t","e","a","m">>)
qCon == Some(<<"c","o","n">>)
qShortToken == Some(<<"t"," ","c","o","n">>)
qConstructor == Some(constructorKey)
qTeams == Some(<<"t","e","a","m","s">>)
qCons == Some(<<"c","o","n","s">>)
qArt == Some(<<"a","r","t">>)

(***************************************************************************)
(* Facets and statistics                                                   *)
(***************************************************************************)
\* The distinct values collected (the list returned is this set, sorted);
\* an article without the property contributes undefined, written Null
getAvailableSections(searchData) ==
    IF IsNull(searchData) THEN Throw
    ELSE Ok({IF Has(a, "section") THEN Some(a.section) ELSE Null : a \in Range(Val(searchData))})

ListValues(searchData, field) ==
    UNION {Range(ListOrEmpty(a, field)) : a \in Range(Val(searchData))}

getAvailableCategories(searchData) ==
    IF IsNull(searchData) THEN Throw ELSE Ok(ListValues(searchData, "categories"))

getAvailableTags(searchData) ==
    IF IsNull(searchData) THEN Throw ELSE Ok(ListValues(searchData, "tags"))

getSearchStats(searchData, searchIndex) ==
    IF IsNull(searchData) THEN Throw
    ELSE Ok([totalArticles |-> Len(Val(searchData)),
             indexSize |-> IF IsNull(searchIndex) THEN 0 ELSE Len(Val(searchIndex)),
             sections |-> Cardinality(getAvailableSections(searchData).v),
             categories |-> Cardinality(getAvailableCategories(searchData).v),
             tags |-> Cardinality(getAvailableTags(searchData).v)])

(***************************************************************************)
(* State                                                                   *)
(***************************************************************************)
VARIABLES
    cache,            \* loader: the cached body of data/news.json, or Null
    loadingStates,    \* loader: the number of the load in flight, or Null
    fetch,            \* the _fetchWithRetry promise of the latest load
    waiters,          \* loadNewsData calls awaiting that promise
    loadCount,        \* loads started so far
    appResult,        \* what the latest loadNewsData call of another module got
    searchData,       \* engine: Null or the indexed articles
    searchIndex,      \* engine: Null or the inverted index
    enginePc,         \* "init"/"refresh": buildSearchIndex awaits the loader; "idle"
    handlerAttached,  \* initializeSearchUI has attached the input handler
    modalRendered,    \* the page holds #modal-search-input and #search-results
    now,              \* wall clock (Date), in hours
    ret,              \* the latest call completed (a public operation, or
                      \* the constructor's init) and its outcome
    prev,             \* the call before it, when both are searches for the
                      \* same query
    timers,           \* pending setTimeout timers
    debounceTimer,    \* engine: the id setTimeout last returned, or Null
    timerSeq,         \* timer ids handed out so far
    elapsed,          \* timer clock, in units of 100 ms
    keys,             \* input events so far, each with what became of it
    inFlight,         \* the interactive queries awaiting their rendering
    resultsContainer  \* what the results area shows

loaderVars == <<cache, loadingStates, fetch, waiters, loadCount, appResult>>
engineVars == <<searchData, searchIndex, enginePc, handlerAttached, modalRendered>>
callVars == <<ret, prev>>
inputVars == <<timers, debounceTimer, timerSeq, elapsed, keys, inFlight, resultsContainer>>
vars == <<loaderVars, engineVars, now, callVars, inputVars>>

\* Bounds of the model
MaxLoads == 2
MaxTime == 2

NoCall == [op |-> "none"]
Call(op, query, filters, out) ==
    [op |-> op, query |-> query, filters |-> filters, at |-> now, out |-> out]

(***************************************************************************)
(* Data loader (loader.js)                                                 *)
(***************************************************************************)
Settled == fetch.phase \in {"resolved", "rejected"}
OwnerWaiting == \E w \in waiters : w.owner

\* The synchronous part of loadNewsData for a caller that misses the cache:
\* join the load in flight, or start one
enterLoad(who) ==
    IF ~IsNull(loadingStates)
    THEN /\ waiters' = waiters \cup {[who |-> who, owner |-> FALSE]}
         /\ UNCHANGED <<loadingStates, fetch, loadCount>>
    ELSE /\ loadCount < MaxLoads
         /\ waiters = {}
         /\ loadCount' = loadCount + 1
         /\ loadingStates' = Some(loadCount + 1)
         /\ fetch' = [attempt |-> 1, phase |-> "fetching", body |-> Null]
         /\ waiters' = {[who |-> who, owner |-> TRUE]}

\* fetch resolved with an OK response whose body parsed
FetchSucceeds(body) ==
    /\ fetch.phase = "fetching"
    /\ fetch' = [fetch EXCEPT !.phase = "resolved", !.body = Some(body)]
    /\ UNCHANGED <<cache, loadingStates, waiters, loadCount, appResult>>
    /\ UNCHANGED <<engineVars, now, callVars, inputVars>>

\* FetchFails retrying after the last attempt as well
FetchFailsInclusive ==
    /\ fetch.phase = "fetching"
    /\ fetch' = [fetch EXCEPT !.phase = IF fetch.attempt <= retryAttempts
                                        THEN "delaying" ELSE "rejected"]
    /\ UNCHANGED <<cache, loadingStates, waiters, loadCount, appResult>>
    /\ UNCHANGED <<engineVars, now, callVars, inputVars>>

\* network error, non-OK status or unparsable body
FetchFails ==
    /\ fetch.phase = "fetching"
    /\ fetch' = [fetch EXCEPT !.phase = IF fetch.attempt < retryAttempts
                                        THEN "delaying" ELSE "rejected"]
    /\ UNCHANGED <<cache, loadingStates, waiters, loadCount, appResult>>
    /\ UNCHANGED <<engineVars, now, callVars, inputVars>>

RetryDelayElapsed ==
    /\ fetch.phase = "delaying"
    /\ fetch' = [fetch EXCEPT !.phase = "fetching", !.attempt = @ + 1]
    /\ UNCHANGED <<cache, loadingStates, waiters, loadCount, appResult>>
    /\ UNCHANGED <<engineVars, now, callVars, inputVars>>

\* What loadNewsData gives the caller that started the load
OwnerResult == IF fetch.phase = "resolved" /\ ~validateThrows(Val(fetch.body))
               THEN Ok(Val(fetch.body)) ELSE Throw

\* What it gives a caller that joined the load: the fetch promise itself
JoinerResult == IF fetch.phase = "resolved" THEN Ok(Val(fetch.body)) ELSE Throw

(***************************************************************************)
(* Engine: init, buildSearchIndex, refresh (search.js)                     *)
(***************************************************************************)
\* engineContinues emptying the engine when loadNewsData failed
engineContinuesClearing(result) ==
    LET built == IF result.ok THEN buildFrom(result.v, searchIndex)
                 ELSE [ok |-> FALSE, searchData |-> Some(<<>>), searchIndex |-> Some(<<>>)]
    IN /\ searchData' = built.searchData
       /\ searchIndex' = built.searchIndex
       /\ handlerAttached' = (handlerAttached
                               \/ (enginePc = "init" /\ built.ok /\ modalRendered))
       /\ UNCHANGED modalRendered
       /\ enginePc' = "idle"
       /\ ret' = Call(enginePc, Null, <<>>, Ok(<<>>))
       /\ prev' = NoCall

\* The rest of buildSearchIndex and of init/refresh once loadNewsData has
\* settled with result
engineContinues(result) ==
    LET built == IF result.ok THEN buildFrom(result.v, searchIndex)
                 ELSE [ok |-> FALSE, searchData |-> searchData, searchIndex |-> searchIndex]
    IN /\ searchData' = built.searchData
       /\ searchIndex' = built.searchIndex
       /\ handlerAttached' = (handlerAttached
                               \/ (enginePc = "init" /\ built.ok /\ modalRendered))
       /\ UNCHANGED modalRendered
       /\ enginePc' = "idle"
       /\ ret' = Call(enginePc, Null, <<>>, Ok(<<>>))
       /\ prev' = NoCall

\* OwnerSettles removing the loading state only when the load succeeded
OwnerSettlesKeepingFailed ==
    /\ Settled
    /\ \E w \in waiters :
          /\ w.owner
          /\ waiters' = waiters \ {w}
          /\ cache' = IF OwnerResult.ok THEN Some(OwnerResult.v) ELSE cache
          /\ loadingStates' = IF OwnerResult.ok THEN Null ELSE loadingStates
          /\ UNCHANGED <<fetch, loadCount>>
          /\ IF w.who = "engine"
             THEN engineContinues(OwnerResult) /\ UNCHANGED appResult
             ELSE appResult' = Some(OwnerResult) /\ UNCHANGED <<engineVars, callVars>>
    /\ UNCHANGED <<now, inputVars>>

\* The continuation of the caller that started the load: validate, cache,
\* remove the loading state, hand the outcome on
OwnerSettles ==
    /\ Settled
    /\ \E w \in waiters :
          /\ w.owner
          /\ waiters' = waiters \ {w}
          /\ cache' = IF OwnerResult.ok THEN Some(OwnerResult.v) ELSE cache
          /\ loadingStates' = Null
          /\ UNCHANGED <<fetch, loadCount>>
          /\ IF w.who = "engine"
             THEN engineContinues(OwnerResult) /\ UNCHANGED appResult
             ELSE appResult' = Some(OwnerResult) /\ UNCHANGED <<engineVars, callVars>>
    /\ UNCHANGED <<now, inputVars>>

\* The continuation of a caller that joined the load
JoinerSettles ==
    /\ Settled
    /\ ~OwnerWaiting
    /\ \E w \in waiters :
          /\ waiters' = waiters \ {w}
          /\ UNCHANGED <<cache, loadingStates, fetch, loadCount>>
          /\ IF w.who = "engine"
             THEN engineContinues(JoinerResult) /\ UNCHANGED appResult
             ELSE appResult' = Some(JoinerResult) /\ UNCHANGED <<engineVars, callVars>>
    /\ UNCHANGED <<now, inputVars>>

\* refresh(), up to the await of loadNewsData
Refresh ==
    /\ enginePc = "idle"
    /\ cache' = Null
    /\ enterLoad("engine")
    /\ enginePc' = "refresh"
    /\ UNCHANGED <<appResult, searchData, searchIndex, handlerAttached, modalRendered>>
    /\ UNCHANGED <<now, callVars, inputVars>>

\* loadNewsData() called by another module of the page
AppLoad ==
    /\ \A w \in waiters : w.who # "app"
    /\ IF ~IsNull(cache)
       THEN /\ appResult' = Some(Ok(Val(cache)))
            /\ UNCHANGED <<loadingStates, fetch, waiters, loadCount>>
       ELSE /\ enterLoad("app")
            /\ appResult' = Null
    /\ UNCHANGED cache
    /\ UNCHANGED <<engineVars, now, callVars, inputVars>>

\* initializeSearch() of the page, reached once its own loadNewsData has
\* succeeded: renderSearchModal() inserts the modal unless it is there
RenderSearchModal ==
    /\ ~IsNull(appResult)
    /\ Val(appResult).ok
    /\ modalRendered' = TRUE
    /\ UNCHANGED <<searchData, searchIndex, enginePc, handlerAttached>>
    /\ UNCHANGED <<loaderVars, now, callVars, inputVars>>

(***************************************************************************)
(* Public operations, called by the presentation layer                     *)
(***************************************************************************)
\* search storing each score in the indexed article instead of in a copy
PerformSearchInPlace(query, filters) ==
    LET results == search(searchData, searchIndex, query, filters, now)
    IN /\ ret' = Call("search", query, filters, Ok(results))
       /\ prev' = IF ret.op = "search" /\ ret.query = query THEN ret ELSE NoCall
       /\ searchData' = IF IsNull(searchData) THEN searchData
                        ELSE Some([i \in 1..Len(Val(searchData)) |->
                                LET hit == {r \in Range(results) : r.id = Val(searchData)[i].id}
                                IN IF hit = {} THEN Val(searchData)[i]
                                   ELSE WithScore(Val(searchData)[i],
                                                  (CHOOSE r \in hit : TRUE).score)])
       /\ UNCHANGED <<searchIndex, enginePc, handlerAttached, modalRendered>>
       /\ UNCHANGED <<loaderVars, now, inputVars>>

PerformSearch(query, filters) ==
    /\ ret' = Call("search", query, filters,
                   Ok(search(searchData, searchIndex, query, filters, now)))
    /\ prev' = IF ret.op = "search" /\ ret.query = query THEN ret ELSE NoCall
    /\ UNCHANGED <<loaderVars, engineVars, now, inputVars>>

GetSearchSuggestions(query) ==
    /\ ret' = Call("getSuggestions", query, <<>>,
                   getSuggestions(searchData, searchIndex, query))
    /\ prev' = NoCall
    /\ UNCHANGED <<loaderVars, engineVars, now, inputVars>>

GetAvailableFilters ==
    /\ ret' = Call("getAvailableFilters", Null, <<>>,
                   IF IsNull(searchData) THEN Throw
                   ELSE Ok([sections |-> getAvailableSections(searchData).v,
                            categories |-> getAvailableCategories(searchData).v,
                            tags |-> getAvailableTags(searchData).v]))
    /\ prev' = NoCall
    /\ UNCHANGED <<loaderVars, engineVars, now, inputVars>>

GetSearchStats ==
    /\ ret' = Call("getSearchStats", Null, <<>>, getSearchStats(searchData, searchIndex))
    /\ prev' = NoCall
    /\ UNCHANGED <<loaderVars, engineVars, now, inputVars>>

\* The wall clock advances by an hour
Tick ==
    /\ now < MaxTime
    /\ now' = now + 1
    /\ UNCHANGED <<loaderVars, engineVars, callVars, inputVars>>

(***************************************************************************)
(* Interactive input: handleSearchInput and its debounce timer             *)
(***************************************************************************)
\* setTimeout(..., 300), in units of 100 ms
DebounceDelay == 3
MaxKeys == 3
MaxElapsed == 7

Placeholder == [kind |-> "placeholder"]
Loading == [kind |-> "loading"]

\* clearTimeout(id): id is Null or a timer id, pending or not
clearTimeout(pending, id) ==
    IF IsNull(id) THEN pending ELSE {t \in pending : t.id # Val(id)}

\* The event loop running a task while continuations are still queued
AnyTaskMayRun == TRUE

\* search is async and awaits nothing, so the continuation of the timer's
\* callback is queued as soon as the callback awaits it, and the event loop
\* runs queued continuations before the next task (input event or timer)
TaskMayRun == inFlight = {}

\* handleSearchInput without its clearTimeout
handleSearchInputNoClear(query) ==
    /\ handlerAttached
    /\ TaskMayRun
    /\ Len(keys) < MaxKeys
    /\ IF Len(trim(query)) < minQueryLength
       THEN /\ resultsContainer' = Placeholder
            /\ keys' = Append(keys, [query |-> query, at |-> elapsed, timer |-> 0,
                                     fired |-> FALSE])
            /\ UNCHANGED <<timers, debounceTimer, timerSeq>>
       ELSE /\ timers' = timers \cup {[id |-> timerSeq + 1, due |-> elapsed + DebounceDelay,
                                       query |-> query]}
            /\ resultsContainer' = Loading
            /\ debounceTimer' = Some(timerSeq + 1)
            /\ timerSeq' = timerSeq + 1
            /\ keys' = Append(keys, [query |-> query, at |-> elapsed,
                                     timer |-> timerSeq + 1, fired |-> FALSE])
    /\ UNCHANGED <<elapsed, inFlight>>
    /\ UNCHANGED <<loaderVars, engineVars, now, callVars>>

handleSearchInput(query) ==
    /\ handlerAttached
    /\ TaskMayRun
    /\ Len(keys) < MaxKeys
    /\ IF Len(trim(query)) < minQueryLength
       THEN /\ timers' = clearTimeout(timers, debounceTimer)
            /\ resultsContainer' = Placeholder
            /\ keys' = Append(keys, [query |-> query, at |-> elapsed, timer |-> 0,
                                     fired |-> FALSE])
            /\ UNCHANGED <<debounceTimer, timerSeq>>
       ELSE /\ timers' = clearTimeout(timers, debounceTimer)
                         \cup {[id |-> timerSeq + 1, due |-> elapsed + DebounceDelay,
                                query |-> query]}
            /\ resultsContainer' = Loading
            /\ debounceTimer' = Some(timerSeq + 1)
            /\ timerSeq' = timerSeq + 1
            /\ keys' = Append(keys, [query |-> query, at |-> elapsed,
                                     timer |-> timerSeq + 1, fired |-> FALSE])
    /\ UNCHANGED <<elapsed, inFlight>>
    /\ UNCHANGED <<loaderVars, engineVars, now, callVars>>

\* The timer's callback, up to its await of search(query)
TimerFires ==
    /\ TaskMayRun
    /\ \E t \in timers :
          /\ t.due <= elapsed
          /\ timers' = timers \ {t}
          /\ LET results == search(searchData, searchIndex, Some(t.query), <<>>, now)
             IN /\ inFlight' = inFlight \cup {[id |-> t.id, query |-> t.query,
                                              results |-> results]}
                /\ ret' = Call("search", Some(t.query), <<>>, Ok(results))
                /\ prev' = IF ret.op = "search" /\ ret.query = Some(t.query)
                           THEN ret ELSE NoCall
          /\ keys' = [k \in 1..Len(keys) |->
                        IF keys[k].timer = t.id THEN [keys[k] EXCEPT !.fired = TRUE]
                        ELSE keys[k]]
    /\ UNCHANGED <<debounceTimer, timerSeq, elapsed, resultsContainer>>
    /\ UNCHANGED <<loaderVars, engineVars, now>>

\* The callback's continuation leaving the results area as it was
RenderDropped ==
    \E f \in inFlight :
       /\ inFlight' = inFlight \ {f}
       /\ UNCHANGED <<timers, debounceTimer, timerSeq, elapsed, keys, resultsContainer>>
       /\ UNCHANGED <<loaderVars, engineVars, now, callVars>>

\* The callback's continuation: searchResultsTemplate into the results area
Render ==
    \E f \in inFlight :
       /\ resultsContainer' = [kind |-> "results", query |-> f.query,
                               results |-> f.results]
       /\ inFlight' = inFlight \ {f}
       /\ UNCHANGED <<timers, debounceTimer, timerSeq, elapsed, keys>>
       /\ UNCHANGED <<loaderVars, engineVars, now, callVars>>

\* 100 ms pass; a timer that is due runs before the clock moves on
TickTimer ==
    /\ TaskMayRun
    /\ elapsed < MaxElapsed
    /\ \A t \in timers : t.due > elapsed
    /\ elapsed' = elapsed + 1
    /\ UNCHANGED <<timers, debounceTimer, timerSeq, keys, inFlight, resultsContainer>>
    /\ UNCHANGED <<loaderVars, engineVars, now, callVars>>

(***************************************************************************)
(* Specifications                                                          *)
(***************************************************************************)
InputIdle ==
    /\ timers = {}
    /\ debounceTimer = Null
    /\ timerSeq = 0
    /\ elapsed = 0
    /\ keys = <<>>
    /\ inFlight = {}
    /\ resultsContainer = Placeholder

\* The state once the module has been evaluated: the constructor has run
\* init() up to buildSearchIndex's await, so the engine's load is in flight
Init ==
    /\ cache = Null
    /\ loadingStates = Some(1)
    /\ fetch = [attempt |-> 1, phase |-> "fetching", body |-> Null]
    /\ waiters = {[who |-> "engine", owner |-> TRUE]}
    /\ loadCount = 1
    /\ appResult = Null
    /\ searchData = Null
    /\ searchIndex = Null
    /\ enginePc = "init"
    /\ handlerAttached = FALSE
    /\ modalRendered \in BOOLEAN
    /\ now = 0
    /\ ret = NoCall
    /\ prev = NoCall
    /\ InputIdle

\* Bodies the server may answer with
Bodies == {smallNews, constructorNews, nullSectionNews}

LifecycleQueries == {qRateCut, qPadShort}

Next ==
    \/ \E body \in Bodies : FetchSucceeds(body)
    \/ FetchFails
    \/ RetryDelayElapsed
    \/ OwnerSettles
    \/ JoinerSettles
    \/ Refresh
    \/ AppLoad
    \/ RenderSearchModal
    \/ \E q \in LifecycleQueries : PerformSearch(q, noFilters)
    \/ \E q \in LifecycleQueries : GetSearchSuggestions(q)
    \/ GetAvailableFilters
    \/ GetSearchStats

Spec == Init /\ [][Next]_vars

\* The state after init() completed over the corpus of body
Built(body) ==
    /\ cache = Some(body)
    /\ loadingStates = Null
    /\ fetch = [attempt |-> 1, phase |-> "resolved", body |-> Some(body)]
    /\ waiters = {}
    /\ loadCount = 1
    /\ appResult = Null
    /\ searchData = buildFrom(body, Null).searchData
    /\ searchIndex = buildFrom(body, Null).searchIndex
    /\ enginePc = "idle"
    /\ handlerAttached = TRUE
    /\ modalRendered = TRUE
    /\ ret = NoCall
    /\ prev = NoCall
    /\ InputIdle

\* Searches over a built index
SearchInputs ==
    { <<qRateCut, noFilters>>, <<qRateCut, fSectionTech>>, <<qRally, noFilters>>,
      <<qRally, fSectionKey>>, <<qRally, fDates>>, <<qRally, fAuthor>>,
      <<qRally, fCategories>>, <<qRally, fNoCategories>>, <<qRally, fTags>>,
      <<qRally, fTechChips>>, <<qRally, fSectionEmpty>>, <<qCut, fAuthor>>,
      <<qUpper, noFilters>>, <<qPadded, noFilters>>, <<qTitleAb, noFilters>>,
      <<qTitleParen, noFilters>>, <<qNone, noFilters>>, <<qShort, noFilters>>,
      <<qBlank, noFilters>>, <<qEmpty, noFilters>>, <<qNull, noFilters>> }

SuggestInputs == {qRa, qTabShort, qBlank, qShort, qNull}

InitSearch ==
    /\ now = 0
    /\ Built(deskNews)

NextSearch ==
    \/ \E in \in SearchInputs : PerformSearch(in[1], in[2])
    \/ \E q \in SuggestInputs : GetSearchSuggestions(q)
    \/ Tick

SpecSearch == InitSearch /\ [][NextSearch]_vars

\* Searches with more than maxResults matches
RankInputs ==
    { <<qPoll, noFilters>>, <<qPoll, fSectionT>>, <<qPoll, fSectionKey>>,
      <<qPoll, fDates>>, <<qUp, noFilters>>, <<qUp, fSectionT>>, <<qNone, noFilters>> }

InitRank ==
    /\ now = 0
    /\ Built(pollNews)

NextRank ==
    \/ \E in \in RankInputs : PerformSearch(in[1], in[2])
    \/ Tick

SpecRank == InitRank /\ [][NextRank]_vars

\* Typing into the search box of a page whose index is built
KeyInputs == {Val(qRa), Val(qUp), Val(qPadShort)}

InitInput ==
    /\ now = 0
    /\ Built(tinyNews)

NextInput ==
    \/ \E q \in KeyInputs : handleSearchInput(q)
    \/ TimerFires
    \/ Render
    \/ TickTimer

SpecInput == InitInput /\ [][NextInput]_vars

\* The initial build over a corpus whose first article lacks some fields
NextBuild ==
    \/ \E body \in BuildBodies : FetchSucceeds(body)
    \/ OwnerSettles
    \/ GetSearchStats

SpecBuild == Init /\ [][NextBuild]_vars

\* Candidate selection and suggestions over a built index
TokenQueries == {qTe, qTea, qEa, qSteam, qCon, qShortToken, qConstructor, qNone,
                 qTeams, qCons, qArt}
PartialQueries == {qTe, qTeUpper, qTea, qNone}

InitTokens ==
    /\ now = 0
    /\ Built(wireNews)

NextTokens ==
    \/ \E q \in TokenQueries : PerformSearch(q, noFilters)
    \/ \E q \in PartialQueries : GetSearchSuggestions(q)
    \/ Tick

SpecTokens == InitTokens /\ [][NextTokens]_vars

(***************************************************************************)
(* Properties                                                              *)
(***************************************************************************)
IsSearch(call) == call.op = "search"
Results(call) == call.out.v
Ids(results) == {r.id : r \in Range(results)}
TrimmedLength(query) == IF IsNull(query) THEN 0 ELSE Len(trim(Val(query)))

\* C1: for every query whose trimmed length is below 2 (empty, null and
\* whitespace-only queries included), search returns the empty list and
\* getSuggestions returns the empty list, in every engine state.
C1_ShortQueryGivesEmpty ==
    (ret.op \in {"search", "getSuggestions"} /\ TrimmedLength(ret.query) < 2)
        => (ret.out.ok /\ ret.out.v = <<>>)

\* C2: the index and the indexed-article collection are always a matched
\* pair: searchIndex is exactly the index built from the current searchData
\* (both are null before the first build); a new searchData is never paired
\* with an older or null searchIndex.
C2_IndexMatchesData ==
    IF IsNull(searchData) THEN IsNull(searchIndex)
    ELSE /\ ~IsNull(searchIndex)
         /\ createSearchIndex(Val(searchData)) = Ok(Val(searchIndex))

\* C3: no public operation (search, getSuggestions, the facet lists,
\* getSearchStats, refresh) throws or rejects to its caller in any reachable
\* state, the state with searchData and searchIndex still null included.
C3_NoOperationThrows == ret.op # "none" => ret.out.ok

\* C4: a query is executed for a keystroke exactly when its trimmed value
\* has length >= 2 and no other keystroke arrives within the following
\* DebounceDelay; every keystroke cancels the pending timer, so at most one
\* timer is pending and a superseded keystroke never triggers a query.
C4_Debounce ==
    /\ Cardinality(timers) <= 1
    /\ \A i \in 1..Len(keys) :
          keys[i].fired =>
             /\ Len(trim(keys[i].query)) >= 2
             /\ elapsed >= keys[i].at + DebounceDelay
             /\ \A j \in (i + 1)..Len(keys) : keys[j].at >= keys[i].at + DebounceDelay
    /\ \A i \in 1..Len(keys) :
          ( /\ Len(trim(keys[i].query)) >= 2
            /\ \A j \in (i + 1)..Len(keys) : keys[j].at > keys[i].at + DebounceDelay
            /\ elapsed > keys[i].at + DebounceDelay )
          => keys[i].fired

\* A keystroke superseded within the window did not fire and a later one did
C4_Witness ==
    \E i, j \in 1..Len(keys) :
        /\ i < j
        /\ Len(trim(keys[i].query)) >= 2
        /\ keys[j].at < keys[i].at + DebounceDelay
        /\ ~keys[i].fired
        /\ keys[j].fired

SameCall == IsSearch(prev) /\ IsSearch(ret) /\ prev.query = ret.query
            /\ prev.filters = ret.filters

\* C5: calling search(q) twice with the same query and filters, with no
\* refresh in between, yields identical ordered output, for every corpus and
\* every pair of call times.
C5_Idempotent == SameCall => prev.out = ret.out

\* Every article is in the same recency window at both times
SameRecencyWindows(t1, t2) ==
    \A a \in Range(Val(searchData)) :
        Has(a, "publishedAt") =>
            /\ (t1 - a.publishedAt < 24) = (t2 - a.publishedAt < 24)
            /\ (t1 - a.publishedAt < 7 * 24) = (t2 - a.publishedAt < 7 * 24)

\* C5, amended: the two calls yield identical ordered output when every
\* article is in the same recency window (less than 24 hours old, less than
\* 7 days old, older) at both call times.
C5_IdempotentSameWindows ==
    (SameCall /\ SameRecencyWindows(prev.at, ret.at)) => prev.out = ret.out

\* Two equal calls at different times, with results
C5_Witness ==
    /\ SameCall
    /\ prev.at # ret.at
    /\ SameRecencyWindows(prev.at, ret.at)
    /\ Results(ret) # <<>>

\* An unfiltered search u and a search f of the same query at the same time
\* with a section filter only
SectionPair(u, f) ==
    /\ IsSearch(u) /\ IsSearch(f)
    /\ u.query = f.query /\ u.at = f.at
    /\ u.filters = noFilters
    /\ DOMAIN f.filters = {"section"}

\* The scored matches of a call's query, before filtering and truncation
ScoredMatches(call) ==
    LET normalizedQuery == trim(toLowerCase(Val(call.query)))
        queryWords == splitWhitespace(normalizedQuery)
        candidates == getCandidateArticles(searchIndex, queryWords)
    IN IF TrimmedLength(call.query) < 2 \/ ~candidates.ok THEN Ok(<<>>)
       ELSE scoreSearchResults(searchData, candidates.v, normalizedQuery,
                               queryWords, call.at)

\* C6: every article returned by search(q, {section: s}) is also returned by
\* search(q), also when the unfiltered search has more than 20 matches.
C6_FilteredIsSubset ==
    /\ SectionPair(prev, ret) => Ids(Results(ret)) \subseteq Ids(Results(prev))
    /\ SectionPair(ret, prev) => Ids(Results(prev)) \subseteq Ids(Results(ret))

FewMatches(call) ==
    ScoredMatches(call).ok /\ Len(ScoredMatches(call).v) <= maxResults

\* C6, amended: every article returned by search(q, {section: s}) is also
\* returned by search(q) at the same time, provided the unfiltered search has
\* at most 20 scored matches.
C6_FilteredIsSubsetUncapped ==
    /\ (SectionPair(prev, ret) /\ FewMatches(prev))
          => Ids(Results(ret)) \subseteq Ids(Results(prev))
    /\ (SectionPair(ret, prev) /\ FewMatches(ret))
          => Ids(Results(prev)) \subseteq Ids(Results(ret))

\* A filtered search with a result, after the unfiltered one with exactly
\* maxResults matches
C6_Witness ==
    /\ SectionPair(prev, ret)
    /\ Len(ScoredMatches(prev).v) = maxResults
    /\ Results(ret) # <<>>

\* C7: every result of search(q, F) satisfies every predicate supplied in F:
\* section or sectionKey equals F.section; publish date within [start, end]
\* inclusive; author name contains F.author case-insensitively; at least one
\* category in F.categories; at least one tag in F.tags.  Absent or empty
\* filters impose no restriction.
C7_ResultsSatisfyFilters ==
    IsSearch(ret) =>
        \A r \in Range(Results(ret)) :
            LET F == ret.filters
            IN /\ ("section" \in DOMAIN F /\ F.section # <<>>)
                    => (r.section = F.section \/ r.sectionKey = F.section)
               /\ "dateRange" \in DOMAIN F
                    => (F.dateRange.start <= r.publishedAt
                        /\ r.publishedAt <= F.dateRange.end)
               /\ ("author" \in DOMAIN F /\ F.author # <<>>)
                    => includes(toLowerCase(r.author.name), toLowerCase(F.author))
               /\ ("categories" \in DOMAIN F /\ F.categories # <<>>)
                    => Range(r.categories) \cap Range(F.categories) # {}
               /\ ("tags" \in DOMAIN F /\ F.tags # <<>>)
                    => Range(r.tags) \cap Range(F.tags) # {}

\* A search filtered by section, date range and tags that returned a result
C7_Witness ==
    /\ IsSearch(ret)
    /\ {"section", "dateRange", "tags"} \subseteq DOMAIN ret.filters
    /\ Results(ret) # <<>>

\* The scored matches of a call that pass its filters
FilteredMatches(call) ==
    IF ScoredMatches(call).ok
    THEN applyFilters(ScoredMatches(call).v, call.filters) ELSE Throw

\* C8: search returns at most 20 results, in non-increasing score order, and
\* the truncation keeps the 20 highest-scoring filtered results.
C8_TopResults ==
    (IsSearch(ret) /\ FilteredMatches(ret).ok) =>
        LET out == Results(ret)
            all == FilteredMatches(ret).v
        IN /\ Len(out) <= 20
           /\ Len(out) = (IF Len(all) < 20 THEN Len(all) ELSE 20)
           /\ \A i \in 1..(Len(out) - 1) : out[i].score >= out[i + 1].score
           /\ Range(out) \subseteq Range(all)
           /\ \A a \in Range(all) \ Range(out) :
                 \A r \in Range(out) : a.score <= r.score

\* A search whose matches were truncated and reordered
C8_Witness ==
    /\ IsSearch(ret)
    /\ Len(Results(ret)) = 20
    /\ Len(FilteredMatches(ret).v) > 20
    /\ Results(ret)[1].score > Results(ret)[20].score
    /\ FilteredMatches(ret).v[1].score < Results(ret)[1].score

\* The score the title field contributes
TitleContribution(article, call) ==
    LET normalizedQuery == trim(toLowerCase(Val(call.query)))
        t == calculateTextScore(toLowerCase(article.title), normalizedQuery,
                                splitWhitespace(normalizedQuery))
    IN IF t.ok THEN 10 * t.v ELSE 0

\* C9: for every article of the indexed corpus, a search for its lower-cased
\* title returns a list containing the article, and the title field
\* contributes at least 10 x 10 to its score.
C9_TitleQueryFindsArticle ==
    (IsSearch(ret) /\ ret.filters = noFilters /\ ~IsNull(ret.query)) =>
        \A a \in Range(Val(searchData)) :
            (Has(a, "title") /\ Val(ret.query) = toLowerCase(a.title)) =>
                /\ a.id \in Ids(Results(ret))
                /\ TitleContribution(a, ret) >= 10 * 10

\* C10: search and getSuggestions have no side effects: searchData,
\* searchIndex and the records in the loader's cache are unchanged by them.
C10_NoSideEffects ==
    [][(ret' # ret /\ ret'.op \in {"search", "getSuggestions"})
          => UNCHANGED <<searchData, searchIndex, cache>>]_vars

\* A search over a built index that returned scored copies
C10_Witness ==
    /\ IsSearch(ret)
    /\ Results(ret) # <<>>
    /\ ~IsNull(cache)
    /\ \A a \in Range(Val(searchData)) : ~Has(a, "score")

\* The engine's build attempt (of init or of refresh) ends in this step
EngineSettles == enginePc # "idle" /\ enginePc' = "idle"
RefreshCompletes == enginePc = "refresh" /\ enginePc' = "idle"

\* The number of articles in the items lists of the sections of a corpus,
\* the reserved key left out
RECURSIVE ArticleCountFrom(_, _)
ArticleCountFrom(newsData, i) ==
    IF i > Len(newsData) THEN 0
    ELSE (IF /\ newsData[i].key # <<"m","e","t","a">>
             /\ newsData[i].value # <<>>
             /\ "items" \in DOMAIN newsData[i].value[1]
          THEN Len(newsData[i].value[1].items) ELSE 0)
         + ArticleCountFrom(newsData, i + 1)

ArticleCount(body) == ArticleCountFrom(body[1], 1)

\* C11: after a refresh() completes over the corpus the loader supplied (a
\* corpus that passes the loader's validation), getSearchStats().totalArticles
\* equals the number of articles in the items lists of all sections of that
\* corpus other than the reserved 'meta' key.
C11_StatsCountCorpus ==
    [][(RefreshCompletes /\ fetch.phase = "resolved"
            /\ ~validateThrows(Val(fetch.body)))
         => /\ getSearchStats(searchData', searchIndex').ok
            /\ getSearchStats(searchData', searchIndex').v.totalArticles
                  = ArticleCount(Val(fetch.body))]_vars

\* getSearchStats called after a refresh that rebuilt over a corpus with
\* articles
C11_Witness ==
    /\ ret.op = "getSearchStats"
    /\ ret.out.ok
    /\ ret.out.v.totalArticles > 0
    /\ loadCount > 1
    /\ enginePc = "idle"
    /\ fetch.phase = "resolved"

\* The engine's load was rejected: the loader supplied no corpus
LoaderFailed == fetch.phase = "rejected"

SuppliedStory == Val(Val(fetch.body))[2].value[1].items[1]

\* An article with the empty string, the empty list and the empty author
\* name in place of what it lacks
WithDefaults(article) ==
    [f \in {"title", "summary", "content", "section", "categories", "tags", "author"}
           \cup DOMAIN article |->
        IF f = "author"
        THEN [name |-> IF "author" \in DOMAIN article /\ "name" \in DOMAIN article.author
                       THEN article.author.name ELSE <<>>]
        ELSE IF f \in DOMAIN article THEN article[f] ELSE <<>>]

BuildDone == enginePc = "idle" /\ fetch.phase = "resolved"

\* C13: an article record with any subset of its fields missing (title,
\* summary, content, section, categories, tags, author, author name) never
\* aborts index building: the build completes, the record is present in the
\* indexed collection, and missing fields contribute the empty string to its
\* searchText.
C13_MissingFieldsIndexed ==
    BuildDone =>
        /\ ~IsNull(searchData) /\ ~IsNull(searchIndex)
        /\ handlerAttached = modalRendered
        /\ createSearchIndex(Val(searchData)) = Ok(Val(searchIndex))
        /\ \E i \in 1..Len(Val(searchData)) :
              LET indexed == Val(searchData)[i]
              IN /\ DOMAIN indexed = DOMAIN SuppliedStory \cup {"sectionKey", "searchText"}
                 /\ \A f \in DOMAIN SuppliedStory : indexed[f] = SuppliedStory[f]
                 /\ indexed.searchText = createSearchText(WithDefaults(SuppliedStory))

\* A build completed over a record that has none of the fields
C13_Witness ==
    /\ BuildDone
    /\ ~IsNull(searchIndex)
    /\ DOMAIN SuppliedStory = {"id", "publishedAt", "featured"}
    /\ Len(Val(searchData)) = 2

\* The maximal runs of non-space characters of text
TokensOf(text) ==
    {SubSeq(text, a, b) : <<a, b>> \in
        {<<a, b>> \in (1..Len(text)) \X (1..Len(text)) :
            /\ a <= b
            /\ \A k \in a..b : text[k] # " "
            /\ (a = 1 \/ text[a - 1] = " ")
            /\ (b = Len(text) \/ text[b + 1] = " ")}}

\* C14: after a successful build over N indexed articles, the index is sound
\* and complete: every posting's articleIndex lies in [0, N) and its token
\* occurs as a whitespace-delimited token of searchData[articleIndex].searchText;
\* and for every article i and every token of length >= 2 in its searchText,
\* the index entry for that token contains a posting with articleIndex = i.
C14_IndexSoundAndComplete ==
    (BuildDone /\ ~IsNull(searchData) /\ ~IsNull(searchIndex)) =>
        LET data == Val(searchData)
            index == Val(searchIndex)
        IN /\ \A e \in 1..Len(index) : \A p \in 1..Len(index[e].postings) :
                LET posting == index[e].postings[p]
                IN /\ posting.articleIndex \in 0..(Len(data) - 1)
                   /\ posting.word = index[e].word
                   /\ index[e].word \in TokensOf(data[posting.articleIndex + 1].searchText)
           /\ \A i \in 1..Len(data) : \A w \in TokensOf(data[i].searchText) :
                Len(w) >= 2 =>
                   \E e \in 1..Len(index) :
                      /\ index[e].word = w
                      /\ \E p \in 1..Len(index[e].postings) :
                            index[e].postings[p].articleIndex = i - 1

\* An index in which one token is posted for both articles
C14_Witness ==
    /\ BuildDone /\ ~IsNull(searchData) /\ ~IsNull(searchIndex)
    /\ \E e \in 1..Len(Val(searchIndex)) :
          {Val(searchIndex)[e].postings[p].articleIndex :
              p \in 1..Len(Val(searchIndex)[e].postings)} = {0, 1}

\* The words of a call's query, as search splits them
QueryWords(call) == splitWhitespace(trim(toLowerCase(Val(call.query))))

\* A search that got past the test of the query's length
SearchRan(call) == IsSearch(call) /\ TrimmedLength(call.query) >= 2

\* C15: every key of the inverted index has length >= 2, and a query token
\* shorter than 2 characters (for example the 'a' in the query 'a cat')
\* contributes no candidate articles.
C15_ShortTokensNeverMatch ==
    /\ ~IsNull(searchIndex) =>
          \A e \in 1..Len(Val(searchIndex)) : Len(Val(searchIndex)[e].word) >= 2
    /\ SearchRan(ret) =>
          getCandidateArticles(searchIndex, QueryWords(ret))
             = getCandidateArticles(searchIndex,
                  SelectSeq(QueryWords(ret), LAMBDA w : Len(w) >= 2))

IsSuggest(call) == call.op = "getSuggestions" /\ call.out.ok

\* C16: getSuggestions returns at most 8 strings without duplicates, ordered
\* by non-decreasing string length.
C16_SuggestionsShape ==
    IsSuggest(ret) =>
        LET out == Results(ret)
        IN /\ Len(out) <= 8
           /\ \A i, j \in 1..Len(out) : i # j => out[i] # out[j]
           /\ \A i \in 1..(Len(out) - 1) : Len(out[i]) <= Len(out[i + 1])

\* Eight suggestions of different lengths, kept out of more index tokens
C16_Witness ==
    /\ IsSuggest(ret)
    /\ Len(Results(ret)) = 8
    /\ Len(Results(ret)[1]) < Len(Results(ret)[8])
    /\ Len(Val(searchIndex)) > 8

\* t starts with p
IsPrefix(p, t) == Len(p) <= Len(t) /\ \A i \in 1..Len(p) : t[i] = p[i]

\* The index tokens that start with the lower-cased partial query of a call
MatchingTokens(call) ==
    {Val(searchIndex)[e].word : e \in
        {e \in 1..Len(Val(searchIndex)) :
            IsPrefix(toLowerCase(Val(call.query)), Val(searchIndex)[e].word)}}

\* C17: for every partial query p of length >= 2 and every index token t
\* that starts with lower-cased p, getSuggestions(p) includes t in the
\* returned list, whatever other tokens and titles the corpus contains.
C17_MatchingTokensSuggested ==
    (IsSuggest(ret) /\ ~IsNull(ret.query) /\ Len(Val(ret.query)) >= 2)
        => MatchingTokens(ret) \subseteq Range(Results(ret))

\* C17, amended: for every partial query p of length >= 2, getSuggestions(p)
\* includes every index token that starts with lower-cased p, provided at
\* most 8 index tokens start with it.
C17_FewMatchingTokensSuggested ==
    (IsSuggest(ret) /\ ~IsNull(ret.query) /\ Len(Val(ret.query)) >= 2
        /\ Cardinality(MatchingTokens(ret)) <= 8)
        => MatchingTokens(ret) \subseteq Range(Results(ret))

\* Several matching tokens, the partial query itself among them, and a
\* title phrase besides
C17_Witness ==
    /\ IsSuggest(ret) /\ ~IsNull(ret.query) /\ Len(Val(ret.query)) >= 2
    /\ Cardinality(MatchingTokens(ret)) \in 2..8
    /\ Val(ret.query) \in MatchingTokens(ret)
    /\ Range(Results(ret)) \ MatchingTokens(ret) # {}

\* part occurs in whole
IsSubstring(part, whole) ==
    \E from \in 0..(Len(whole) - Len(part)) :
        \A i \in 1..Len(part) : whole[from + i] = part[i]

\* Index key k and query token w are related as candidate selection requires
Related(k, w) ==
    \/ k = w
    \/ IsPrefix(w, k)
    \/ IsPrefix(k, w)
    \/ (Len(w) > 3 /\ (IsSubstring(w, k) \/ IsSubstring(k, w)))

\* C18: if no query token is equal to, a prefix of, prefixed by, (for tokens
\* longer than 3) a substring of or a superstring of any index key, search
\* returns the empty list regardless of article recency or featured status.
C18_NoMatchGivesEmpty ==
    (SearchRan(ret) /\ ~IsNull(searchIndex)
        /\ \A w \in Range(QueryWords(ret)) : \A e \in 1..Len(Val(searchIndex)) :
              ~Related(Val(searchIndex)[e].word, w))
        => Results(ret) = <<>>

\* A search without any match over a corpus with a featured article less
\* than a day old
C18_Witness ==
    /\ SearchRan(ret) /\ ~IsNull(searchIndex)
    /\ \A w \in Range(QueryWords(ret)) : \A e \in 1..Len(Val(searchIndex)) :
          ~Related(Val(searchIndex)[e].word, w)
    /\ \E a \in Range(Val(searchData)) :
          a.featured /\ ret.at - a.publishedAt < 24

\* The articles posted under the index keys related to a query token
RelatedArticles(index, words) ==
    UNION {{index[e].postings[p].articleIndex : p \in 1..Len(index[e].postings)} :
              e \in {e \in 1..Len(index) :
                        \E w \in Range(words) : Related(index[e].word, w)}}

\* C20: the candidate set returned for a list of query tokens is exactly the
\* deduplicated union, over all query tokens w and index keys k, of the
\* articles posted under k where k = w, or k starts with w, or w starts with
\* k, or (only when w has more than 3 characters) k contains w or w contains
\* k; no other article is a candidate.
C20_CandidatesAreRelated ==
    (SearchRan(ret) /\ getCandidateArticles(searchIndex, QueryWords(ret)).ok) =>
        LET candidates == getCandidateArticles(searchIndex, QueryWords(ret)).v
        IN /\ Range(candidates) = RelatedArticles(Val(searchIndex), QueryWords(ret))
           /\ \A i, j \in 1..Len(candidates) : i # j => candidates[i] # candidates[j]

\* Candidates found by the substring rule alone, or withheld by it from a
\* short token
C20_Witness ==
    /\ SearchRan(ret) /\ getCandidateArticles(searchIndex, QueryWords(ret)).ok
    /\ \/ /\ getCandidateArticles(searchIndex, QueryWords(ret)).v # <<>>
          /\ \A w \in Range(QueryWords(ret)) : \A e \in 1..Len(Val(searchIndex)) :
                ~(IsPrefix(w, Val(searchIndex)[e].word)
                  \/ IsPrefix(Val(searchIndex)[e].word, w))
       \/ /\ getCandidateArticles(searchIndex, QueryWords(ret)).v = <<>>
          /\ \E w \in Range(QueryWords(ret)) : \E e \in 1..Len(Val(searchIndex)) :
                IsSubstring(w, Val(searchIndex)[e].word)

\* The engine's loadNewsData call started the load it awaits: its fetch
\* was issued after the call was made
EngineStartedLoad == \E w \in waiters : w.who = "engine" /\ w.owner

\* C19: refresh() discards the cached corpus and rebuilds from newly
\* obtained data: after refresh() completes successfully, searchData and
\* searchIndex reflect a corpus fetched after the refresh call was made, also
\* when another loadNewsData call for the same file is already in flight at
\* the moment refresh is called.
C19_RefreshFetchesAnew ==
    [][(RefreshCompletes /\ fetch.phase = "resolved"
            /\ buildFrom(Val(fetch.body), searchIndex).ok)
         => EngineStartedLoad]_vars

\* The indexed article a result is the scored copy of
Indexed(result) == CHOOSE a \in Range(Val(searchData)) : a.id = result.id

\* The score the model gives the article with index c for a call's query
CandidateScore(c, call) ==
    ArticleScore(Val(searchData)[c + 1], trim(toLowerCase(Val(call.query))),
                 QueryWords(call), call.at)

\* C21: every result returned by search has a score strictly greater than
\* 0; a candidate whose total score is 0 is never returned.
C21_PositiveScores ==
    SearchRan(ret) =>
        /\ \A r \in Range(Results(ret)) : r.score > 0
        /\ getCandidateArticles(searchIndex, QueryWords(ret)).ok =>
              \A c \in Range(getCandidateArticles(searchIndex, QueryWords(ret)).v) :
                 (CandidateScore(c, ret).ok /\ CandidateScore(c, ret).v = 0)
                     => Val(searchData)[c + 1].id \notin Ids(Results(ret))

\* A search one of whose candidates scored 0
C21_Witness ==
    /\ SearchRan(ret)
    /\ getCandidateArticles(searchIndex, QueryWords(ret)).ok
    /\ \E c \in Range(getCandidateArticles(searchIndex, QueryWords(ret)).v) :
          CandidateScore(c, ret).ok /\ CandidateScore(c, ret).v = 0

\* The text score of one field of an article for a call's query, 0 for a
\* field that is absent
FieldScore(present, text, call) ==
    IF present
    THEN calculateTextScore(toLowerCase(text), trim(toLowerCase(Val(call.query))),
                            QueryWords(call)).v
    ELSE 0

\* The strings of a list with one space between them
RECURSIVE SpaceJoined(_)
SpaceJoined(list) ==
    IF list = <<>> THEN <<>>
    ELSE IF Len(list) = 1 THEN list[1]
    ELSE list[1] \o <<" ">> \o SpaceJoined(Tail(list))

\* 10 x title + 5 x summary + 2 x content + 3 x tags + 3 x categories
\* + 1 x section + 1 x author name
WeightedTextScore(a, call) ==
    10 * FieldScore(TRUE, a.title, call)
    + 5 * FieldScore(TRUE, a.summary, call)
    + 2 * FieldScore("content" \in DOMAIN a, IF "content" \in DOMAIN a THEN a.content ELSE <<>>, call)
    + 3 * FieldScore("tags" \in DOMAIN a, IF "tags" \in DOMAIN a THEN SpaceJoined(a.tags) ELSE <<>>, call)
    + 3 * FieldScore("categories" \in DOMAIN a,
                     IF "categories" \in DOMAIN a THEN SpaceJoined(a.categories) ELSE <<>>, call)
    + 1 * FieldScore(TRUE, a.section, call)
    + 1 * FieldScore("author" \in DOMAIN a /\ "name" \in DOMAIN a.author,
                     IF "author" \in DOMAIN a /\ "name" \in DOMAIN a.author
                     THEN a.author.name ELSE <<>>, call)

\* 2 for an article published within the 24 hours before time at, 1 for one
\* published between 24 hours and 7 days before it, 0 otherwise
RecencyInPastWindow(a, at) ==
    IF "publishedAt" \notin DOMAIN a THEN 0
    ELSE IF a.publishedAt <= at /\ at - a.publishedAt < 24 THEN 2
    ELSE IF a.publishedAt <= at /\ at - a.publishedAt < 7 * 24 THEN 1
    ELSE 0

FeaturedOne(a) == IF "featured" \in DOMAIN a /\ a.featured THEN 1 ELSE 0

\* C22: the recency bonus added to a candidate's score is 2 exactly when
\* the article was published within the 24 hours before the query time, 1
\* exactly when it was published between 24 hours and 7 days before the query
\* time, and 0 otherwise (none for an article whose publish time is not in
\* that past window); the featured bonus is 1 exactly when the article is
\* marked featured.
C22_BonusesInPastWindow ==
    SearchRan(ret) =>
        \A r \in Range(Results(ret)) :
            r.score - WeightedTextScore(Indexed(r), ret)
                = RecencyInPastWindow(Indexed(r), ret.at) + FeaturedOne(Indexed(r))

\* C23: a result's score equals 10 x textScore(title) + 5 x
\* textScore(summary) + 2 x textScore(content, if present) + 3 x
\* textScore(tags joined, if present) + 3 x textScore(categories joined, if
\* present) + 1 x textScore(section) + 1 x textScore(author name, if present)
\* + recency bonus + featured bonus, an absent optional field contributing 0.
C23_WeightedSum ==
    SearchRan(ret) =>
        \A r \in Range(Results(ret)) :
            r.score = WeightedTextScore(Indexed(r), ret)
                      + recencyBonus(Indexed(r), ret.at) + featuredBonus(Indexed(r))

\* A result with every optional field scored, and one without them
C23_Witness ==
    /\ SearchRan(ret)
    /\ \E r \in Range(Results(ret)) :
          /\ {"content", "tags", "categories", "author"} \subseteq DOMAIN r
          /\ FieldScore(TRUE, r.summary, ret) > 0
          /\ FieldScore(TRUE, SpaceJoined(r.tags), ret) > 0
    /\ \E r \in Range(Results(ret)) :
          {"content", "tags", "categories", "author"} \cap DOMAIN r = {}

\* text contains the full query of a call or one of its tokens
MatchesText(text, call) ==
    LET lower == toLowerCase(text)
    IN \/ IsSubstring(trim(toLowerCase(Val(call.query))), lower)
       \/ \E w \in Range(QueryWords(call)) : IsSubstring(w, lower)

\* C26: every result returned by search matches the query textually: at
\* least one of its scored fields (title, summary, content, tags, categories,
\* section, author name) contains the full query or one of the query tokens;
\* the recency and featured bonuses alone never admit a candidate that has
\* zero text score in every field.
C26_ResultsMatchText ==
    SearchRan(ret) =>
        \A r \in Range(Results(ret)) :
            \/ MatchesText(r.title, ret)
            \/ MatchesText(r.summary, ret)
            \/ MatchesText(r.section, ret)
            \/ ("content" \in DOMAIN r /\ MatchesText(r.content, ret))
            \/ ("tags" \in DOMAIN r /\ MatchesText(SpaceJoined(r.tags), ret))
            \/ ("categories" \in DOMAIN r /\ MatchesText(SpaceJoined(r.categories), ret))
            \/ ("author" \in DOMAIN r /\ "name" \in DOMAIN r.author
                   /\ MatchesText(r.author.name, ret))

\* C24: at most one interactive query is in flight at any time: from the
\* moment a timer's callback starts search until its results are rendered,
\* no other callback has a search awaiting its rendering, whatever the
\* interleaving of keystrokes, timers and completions.
C24_OneQueryInFlight == Cardinality(inFlight) <= 1

\* A second query is in flight while the results area still shows the
\* results of an earlier one
C24_Witness ==
    /\ inFlight # {}
    /\ \E i \in 1..Len(keys) :
          /\ keys[i].fired
          /\ \A f \in inFlight : f.id # keys[i].timer

Quiescent == inFlight = {} /\ timers = {} /\ keys # <<>>
LastKey == keys[Len(keys)]

\* C25: once every fired query has been rendered and no timer is pending,
\* the results area shows the outcome for the most recent keystroke: the
\* results of the last fired query when its trimmed length is >= 2, the
\* placeholder when it is shorter; results of an earlier query never
\* replace those of a later one.
C25_LastKeystrokeShown ==
    Quiescent =>
        IF Len(trim(LastKey.query)) < minQueryLength
        THEN resultsContainer = Placeholder
        ELSE /\ LastKey.fired
             /\ IsSearch(ret) /\ ret.query = Some(LastKey.query)
             /\ resultsContainer = [kind |-> "results", query |-> LastKey.query,
                                    results |-> Results(ret)]
             /\ Results(ret) = search(searchData, searchIndex, Some(LastKey.query),
                                      <<>>, now)

\* Two different queries were fired and rendered, and the area shows the
\* results of the later one, which differ from those of the earlier one
C25_Witness ==
    /\ Quiescent
    /\ resultsContainer.kind = "results"
    /\ \E i \in 1..(Len(keys) - 1) :
          /\ keys[i].fired
          /\ keys[i].query # LastKey.query
          /\ search(searchData, searchIndex, Some(keys[i].query), <<>>, now)
                 # resultsContainer.results

\* init() has completed and its build succeeded; no refresh took place
InitBuiltIndex == enginePc = "idle" /\ loadCount = 1 /\ ~IsNull(searchIndex)

\* C27: the debounced handler is never attached while searchIndex is null,
\* and once the modal is rendered and the engine's init has built the index
\* the handler is attached, whichever of the two happened first.
C27_HandlerAttachedOnceModalRendered ==
    /\ handlerAttached => ~IsNull(searchIndex)
    /\ (modalRendered /\ InitBuiltIndex) => handlerAttached

\* C28: every caller whose call overlaps one load observes the same outcome
\* as the caller that started it: a caller that joined the load in flight
\* receives the data exactly when the first caller accepted it as valid, and
\* is rejected otherwise.
C28_JoinerGetsOwnerOutcome ==
    [][\A w \in waiters \ waiters' :
          (~w.owner /\ w.who = "app") => appResult' = Some(OwnerResult)]_vars

LoadInFlight == fetch.phase \in {"fetching", "delaying"}

\* C29: at most one fetch-with-retry sequence is in flight: a load starts
\* only when none is registered, the previous one has settled and the data
\* is not cached; the loading-state entry exists exactly while the caller
\* that started the load awaits it and is removed when that caller
\* completes, on success and on failure; only validated data of a
\* successful load is ever cached.
C29_OneLoadPerFile ==
    [][/\ LoadInFlight => (~IsNull(loadingStates) /\ OwnerWaiting)
       /\ loadCount' # loadCount =>
             /\ IsNull(loadingStates) /\ Settled /\ waiters = {}
             /\ IsNull(cache')
             /\ loadingStates' = Some(loadCount') /\ loadCount' = loadCount + 1
       /\ (~IsNull(cache) /\ cache' = cache) => loadCount' = loadCount
       /\ (OwnerWaiting /\ ~OwnerWaiting') => IsNull(loadingStates')
       /\ ~IsNull(loadingStates') => OwnerWaiting'
       /\ cache' # cache =>
             \/ IsNull(cache')
             \/ OwnerResult.ok /\ cache' = Some(OwnerResult.v)
       /\ (OwnerWaiting /\ ~OwnerWaiting' /\ ~OwnerResult.ok) => cache' = cache]_vars

\* The first load failed, nothing was cached, and a later call of the page
\* has started a second load
C29_Witness ==
    /\ loadCount = 2
    /\ LoadInFlight
    /\ IsNull(cache)
    /\ enginePc = "idle"
    /\ \E w \in waiters : w.owner /\ w.who = "app"

\* C30: a load makes at most 3 fetch attempts: a failed attempt is retried
\* only while fewer than 3 attempts have been made and only after the retry
\* delay; the load resolves with the data of its first successful attempt
\* and rejects after the third failure.
C30_AtMostThreeAttempts ==
    [][/\ fetch'.attempt \in 1..3
       /\ (fetch'.phase = "delaying" /\ fetch.phase # "delaying") =>
             (fetch.phase = "fetching" /\ fetch.attempt < 3 /\ fetch'.attempt = fetch.attempt)
       /\ (fetch'.attempt # fetch.attempt /\ loadCount' = loadCount) =>
             /\ fetch.phase = "delaying"
             /\ fetch'.phase = "fetching"
             /\ fetch'.attempt = fetch.attempt + 1
       /\ (fetch'.phase = "rejected" /\ fetch.phase # "rejected") =>
             (fetch.phase = "fetching" /\ fetch.attempt = 3 /\ fetch'.attempt = 3)
       /\ (fetch'.phase = "resolved" /\ fetch.phase # "resolved") =>
             (fetch.phase = "fetching" /\ fetch'.attempt = fetch.attempt
              /\ ~IsNull(fetch'.body))
       /\ (Settled /\ loadCount' = loadCount) => fetch' = fetch]_vars

\* A load was rejected after its third attempt failed
C30_Witness == fetch.phase = "rejected" /\ fetch.attempt = 3
====
